---- MODULE Spec2Model ----
(***************************************************************************)
(* Training / validation orchestration of classification/train.py:         *)
(* train_main drives no_epochs repetitions of train_one_epoch, validate    *)
(* and the checkpoint decision, then one validate pass on the test loader. *)
(* Every batch of train_one_epoch and validate is split into the steps the *)
(* code performs in order, so that the order of the side effects (mask     *)
(* query, forward, loss, optimizer step, LR step, counter) is observable.  *)
(* environment_loader's construction of the mask schedule and the text     *)
(* prompt of classification/inference.py (return_prepared_inputs) are      *)
(* modelled as well.                                                       *)
(***************************************************************************)
EXTENDS Integers, Sequences, FiniteSets, TLC

VARIABLES
    args,            \* RunConfig: the parsed arguments, read-only during the run
    model,           \* the external model: which extra outputs it returns, value ranges
    loaders,         \* train / val / test loaders: number and size of their batches
    pc,              \* position of the single thread of control
    phase,           \* which call is active: "train", "val" (per-epoch) or "test"
    epoch,           \* loop variable of train_main (0-indexed)
    i,               \* loop variable of the batch loop (0-indexed)
    global_step,     \* global_step[0], the shared step counter
    masks,           \* value returned by mask_scheduler.ret_mask for this batch
    mask_query,      \* mask scheduler: the step of its latest ret_mask call (-1: none)
    outs,            \* what the forward pass of this batch returned
    loss,            \* composed loss of this batch
    current_losses,  \* per-batch losses of the running epoch / pass
    correct_1,       \* validate: running top-1 correct count
    correct_5,       \* validate: running top-5 correct count
    total,           \* validate: running example count
    train_loss_avg,  \* run-level history lists
    val_loss_avg,
    top1_accuracies,
    top5_accuracies,
    default_val_loss_avg, \* the list object bound to validate's default val_loss_avg=[]
    best_epoch,
    curr_acc,
    top_acc,
    ret,             \* the value the latest validate call returned
    optimizer,       \* external optimizer: number of step() calls, number of decays
    lr_scheduler,    \* external LR scheduler: number of step() calls
    fetched,         \* number of training batches the train loader has yielded so far
    ckpt,            \* checkpoint store: the persisted state and the log of writes
    mask_scheduler,  \* the MasksSchedule object environment_loader constructed
    captions,        \* captions of the current batch (one row; None: no captions)
    labels_text,     \* labels of the text loss of the current batch (one row)
    text_prompt      \* inference: the text prompt return_prepared_inputs builds (one row)

vars == <<args, model, loaders, pc, phase, epoch, i, global_step, masks, outs, loss,
          current_losses, correct_1, correct_5, total, train_loss_avg, val_loss_avg,
          top1_accuracies, top5_accuracies, default_val_loss_avg, best_epoch,
          curr_acc, top_acc, optimizer, lr_scheduler, fetched, ckpt, mask_query, ret,
          mask_scheduler, captions, labels_text, text_prompt>>

(***************************************************************************)
(* Bounds of the model.                                                    *)
(***************************************************************************)
MaxEpochs == 3
MaxTrainLen == 4
MaxLogFreq == 1
ValLen == 2
ScenarioTotal == 20
MaxValLen == 4
ScenarioEpochLen == 50
MaxTextLen == 4
MaxVocab == 4

\* Python's None; a present value x is the one-element tuple <<x>>.
None == <<>>

Some(x) == <<x>>

(***************************************************************************)
(* Numbers.  Python computes 100 * correct / total and mean(losses) as     *)
(* true divisions; they are kept exact as fractions num/den with den > 0.  *)
(***************************************************************************)
Frac(n, d) == [num |-> n, den |-> d]

FracGt(a, b) == a.num * b.den > b.num * a.den

FracEq(a, b) == a.num * b.den = b.num * a.den

FracGe(a, b) == a.num * b.den >= b.num * a.den

RECURSIVE SumSeq(_)
SumSeq(s) == IF s = <<>> THEN 0 ELSE Head(s) + SumSeq(Tail(s))

\* statistics.mean of a non-empty list
mean(s) == Frac(SumSeq(s), Len(s))

(***************************************************************************)
(* External collaborators, by their interface.                             *)
(***************************************************************************)

\* Mutant of TotalSteps: the number of epochs is left out.
TotalStepsOneEpoch(no_epochs, steps_per_epoch) == steps_per_epoch

\* Line 52: total_steps = args.no_epochs * steps_per_epoch.
TotalSteps(no_epochs, steps_per_epoch) == no_epochs * steps_per_epoch

\* Mutant of MaskWucdSteps: the product is rounded up.
MaskWucdStepsCeil(total_steps, percent) ==
    (total_steps * percent.num + percent.den - 1) \div percent.den

\* Line 60: mask_wucd_steps = int(total_steps * args.mask_wucd_percent), the
\* percentage being the exact fraction percent.num / percent.den.
MaskWucdSteps(total_steps, percent) == (total_steps * percent.num) \div percent.den

\* Mutant of MasksSchedule: a full cosine cycle is requested.
MasksScheduleFullCycle(mask_schedule, seq_len, max_text_seq_len, wucd, total_steps, pn) ==
    [mask_schedule |-> mask_schedule, total_seq_len |-> seq_len,
     max_text_seq_len |-> max_text_seq_len, warmup_steps |-> wucd,
     cooldown_steps |-> wucd, total_steps |-> total_steps, cycles |-> Frac(1, 1),
     post_null |-> pn]

\* Lines 61-64: the arguments MasksSchedule is constructed with; post_null is
\* whether this scheduler answers a post-schedule query with null rather than
\* with an all-false mask.
MasksSchedule(mask_schedule, seq_len, max_text_seq_len, wucd, total_steps, pn) ==
    [mask_schedule |-> mask_schedule, total_seq_len |-> seq_len,
     max_text_seq_len |-> max_text_seq_len, warmup_steps |-> wucd,
     cooldown_steps |-> wucd, total_steps |-> total_steps, cycles |-> Frac(1, 2),
     post_null |-> pn]

\* MasksSchedule: with cycles above 0.5 the phase pattern repeats modulo
\* total_steps.
EffectiveStep(step) ==
    IF FracGt(mask_scheduler.cycles, Frac(1, 2))
    THEN step % mask_scheduler.total_steps
    ELSE step

\* MasksSchedule: the step lies past the schedule.
PostSchedule(step) == EffectiveStep(step) >= mask_scheduler.total_steps

\* MasksSchedule: the mask ratio at a step as a fraction of the configured
\* maximum: warmup ramp, steady, cooldown ramp, post-schedule.
MaskRatio(step) ==
    LET s == EffectiveStep(step)
        w == mask_scheduler.warmup_steps
        c == mask_scheduler.cooldown_steps
        t == mask_scheduler.total_steps
    IN  IF s < w THEN Frac(s, w)
        ELSE IF s < t - c THEN Frac(1, 1)
        ELSE IF s < t THEN Frac(t - s, c)
        ELSE Frac(0, 1)

\* MasksSchedule: the positions of the start and end tokens, first and last
\* of the text region, which are never masked.
SpecialPositions ==
    {mask_scheduler.total_seq_len - mask_scheduler.max_text_seq_len + 1,
     mask_scheduler.total_seq_len}

\* MasksSchedule: the masks (one row, 1 = masked) a random selection at the
\* given ratio may produce.
MaskBits(ratio) ==
    {b \in [1..mask_scheduler.total_seq_len -> {0, 1}] :
        /\ \A q \in SpecialPositions : b[q] = 0
        /\ (ratio.num = 0 => \A q \in DOMAIN b : b[q] = 0)}

\* mask_scheduler.ret_mask(global_step), the values it may return: null when
\* the run uses no masking (and, for a scheduler that does so, past the
\* schedule), otherwise a mask selected at the ratio of the step.
RetMask(step) ==
    IF ~mask_scheduler.mask_schedule \/ (PostSchedule(step) /\ mask_scheduler.post_null)
    THEN {None}
    ELSE {Some([step |-> step, ratio |-> MaskRatio(step), bits |-> b]) :
            b \in MaskBits(MaskRatio(step))}

\* The tuple the model returns: classification logits always, text logits and
\* the exclusion scalar when the model was built with them.
ModelReturns ==
    <<"logits">> \o (IF model.has_text THEN <<"text_logits">> ELSE <<>>)
                 \o (IF model.has_excl THEN <<"exclusion">> ELSE <<>>)

\* Scores of one example over n classes in which exactly r classes score
\* strictly higher than the class label.
ScoresWithRank(label, r, n) ==
    [c \in 0..(n - 1) |-> (c - label + (n - 1 - r) + n) % n]

\* torch.topk(k): the classes with the k highest scores.
TopK(scores, k) ==
    {c \in DOMAIN scores :
        Cardinality({d \in DOMAIN scores : scores[d] > scores[c]}) < k}

\* utilities.misc.accuracy(outputs, labels, (1, 5)): for each k the number of
\* examples of the batch whose label is among the k highest scores.
accuracy(outputs, labels) ==
    << Cardinality({e \in DOMAIN labels : labels[e] \in TopK(outputs[e], 1)}),
       Cardinality({e \in DOMAIN labels : labels[e] \in TopK(outputs[e], 5)}) >>

\* Labels of batch b of a loader: a fixed data set.
BatchLabels(b, size) == [e \in 1..size |-> (b + e) % args.num_classes]

\* Rank of the true label of example e when the first n1 examples of the batch
\* are top-1 right, the next n5 are top-5 right only, and the rest are wrong.
RankOf(e, n1, n5) ==
    IF e <= n1 THEN 0 ELSE IF e <= n1 + n5 THEN 1 + (e % 4) ELSE 5

\* The score matrices the model may return for a batch of the given labels;
\* a coarse model treats all examples of a batch alike.
ModelOutputs(labels) ==
    LET B == Len(labels)
        n == args.num_classes
    IN  { [e \in 1..B |-> ScoresWithRank(labels[e], RankOf(e, n1n5[1], n1n5[2]), n)] :
            n1n5 \in {p \in (0..B) \X (0..B) :
                        /\ p[1] + p[2] <= B
                        /\ (p[1] + p[2] < B => n > 5)
                        /\ (model.coarse => (p[1] \in {0, B} /\ p[2] \in {0, B}))} }

(***************************************************************************)
(* train_one_epoch / validate: the per-batch computations.                 *)
(***************************************************************************)

\* Names the forward-pass branch binds, lines 105-116 (train) and 196-207.
ExpectedReturns ==
    IF args.multimodal /\ args.mask_schedule /\ args.exclusion_loss
        THEN <<"logits", "text_logits", "exclusion">>
    ELSE IF args.multimodal /\ args.mask_schedule
        THEN <<"logits", "text_logits">>
    ELSE IF args.multimodal /\ args.exclusion_loss
        THEN <<"logits", "exclusion">>
    ELSE IF args.multimodal
        THEN <<"logits">>
    ELSE IF args.exclusion_loss
        THEN <<"logits", "exclusion">>
    ELSE <<"logits">>

\* Tuple unpacking of the model's return value succeeds when the arity matches;
\* a branch that binds the single name outputs unpacks nothing.
UnpackOk(returned, expected) ==
    Len(expected) = 1 \/ Len(returned) = Len(expected)

\* Name k of the branch is bound to an output of the given kind.
Bound(returned, expected, k, kind) ==
    /\ k <= Len(returned)
    /\ expected[k] = kind
    /\ returned[k] = kind

\* Lines 118 and 209: the classification criterion needs outputs to be the
\* logits, not a tuple.
ClsLossOk(returned, expected) ==
    Len(expected) = 1 => Len(returned) = 1

\* labels_text is built from captions, which only a multimodal batch binds.
LabelsTextOk(m) == (m # None) => args.multimodal

\* The text criterion needs outputs_text bound to text logits.
TextLossOk(m, returned, expected) ==
    (m # None) =>
        \E k \in 1..Len(expected) : Bound(returned, expected, k, "text_logits")

\* Mutant of ScalarLossOk: a non-scalar loss goes through backward.
ScalarLossOkAlways(returned, expected) == TRUE

\* The composed loss is a scalar only if exclusion_loss is bound to a scalar.
ScalarLossOk(returned, expected) ==
    args.exclusion_loss =>
        \E k \in 1..Len(expected) : Bound(returned, expected, k, "exclusion")

\* Mutant of ComposeLoss: the exclusion term is added instead of subtracted.
ComposeLossAdds(a, m, o) ==
    LET l1 == o.cls
        l2 == IF m # None THEN l1 + o.txt ELSE l1
    IN  IF a.exclusion_loss
        THEN l2 + (a.exclusion_weight * (a.temperature * a.temperature) * o.excl)
        ELSE l2

\* Lines 118-122 and 209-213.
ComposeLoss(a, m, o) ==
    LET l1 == o.cls
        l2 == IF m # None THEN l1 + o.txt ELSE l1
    IN  IF a.exclusion_loss
        THEN l2 - (a.exclusion_weight * (a.temperature * a.temperature) * o.excl)
        ELSE l2

\* Mutant of LabelsText: the first max_text_seq_len mask positions are read.
LabelsTextFirstPositions(capt, bits) ==
    [j \in DOMAIN capt |->
        IF bits[j] = 1 THEN -100
        ELSE IF capt[j] \in {0, 101, 102} THEN -100 ELSE capt[j]]

\* Lines 99-102 (and 190-193): labels_text for one row of captions and one row
\* of the mask, whose last max_text_seq_len positions are the text region.
LabelsText(capt, bits) ==
    [j \in DOMAIN capt |->
        IF bits[Len(bits) - args.max_text_seq_len + j] = 1 THEN -100
        ELSE IF capt[j] \in {0, 101, 102} THEN -100 ELSE capt[j]]

\* Mutant of MaskQueryArg: the schedule is queried with the step already
\* advanced for the batch.
MaskQueryArgAdvanced(gs) == gs + 1

\* Lines 96 and 187: the step the mask schedule is queried with.
MaskQueryArg(gs) == gs

\* Mutant of DebugBreak: the 0-indexed loop variable is tested.
DebugBreakZeroIndexed(ii) == args.debugging /\ (ii % (args.log_freq * 3) = 0)

\* Lines 148 and 231: the debugging early exit after batch index ii.
DebugBreak(ii) == args.debugging /\ ((ii + 1) % (args.log_freq * 3) = 0)

\* Mutant of ValMaskQueryArg: the position within the pass is added.
ValMaskQueryArgPerBatch(gs) == gs + i

\* Line 187: validate passes global_step to ret_mask as it received it.
ValMaskQueryArg(gs) == gs

\* Mutant of LrSchedulerStep: the schedule stays where it is.
LrSchedulerStepNone(s) == s

\* Line 128: lr_scheduler.step() advances the LR schedule by one step.
LrSchedulerStep(s) == [s EXCEPT !.steps = @ + 1]

\* Mutant of DecayNow: the decay does not look at the scheduler.
DecayNowAnyMode == (epoch + 1) % args.epoch_decay = 0

\* Mutant of StepAfterBatch: the batch that takes the debugging exit is not
\* counted.
StepAfterBatchSkipsBreak(gs) == IF DebugBreak(i) THEN gs ELSE gs + 1

\* Line 134.
StepAfterBatch(gs) == gs + 1

\* Lines 152-154.
DecayNow == (~args.lr_scheduler) /\ ((epoch + 1) % args.epoch_decay = 0)

\* Mutant of ShouldSave: a tie with the best accuracy saves too.
ShouldSaveOnTie(acc, best) == FracGe(acc, best)

\* Line 291.
ShouldSave(acc, best) == FracGt(acc, best)

\* Mutant of NewTopAcc: the best value is not replaced.
NewTopAccStale(acc, old) == old

\* Line 294: top_acc = curr_acc.
NewTopAcc(acc, old) == acc

\* Mutant of NewBestEpoch: the 0-indexed loop variable is stored.
NewBestEpochZeroIndexed(ep) == ep

\* Line 295.
NewBestEpoch(ep) == ep + 1

\* Mutant of LoopContinues: one epoch too many.
LoopContinuesInclusive(ep) == ep + 1 <= args.no_epochs

\* Line 275: whether range(no_epochs) yields another epoch after epoch ep.
LoopContinues(ep) == ep + 1 < args.no_epochs

\* Mutant of AfterValidate: the final pass goes through the checkpoint decision.
AfterValidateAlwaysDecides(ph) == "decide"

\* Lines 286-299: what train_main does with the value validate returned.
AfterValidate(ph) == IF ph = "val" THEN "decide" ELSE "done"

\* Mutant of UsesRunValLoss: the final call passes the run-level list too.
UsesRunValLossAlways(ph) == TRUE

\* Lines 286-288 pass the run-level val_loss_avg; line 298-299 passes none, so
\* validate's default list receives the entry.
UsesRunValLoss(ph) == ph = "val"

\* The loader a validate call iterates.
Loader(ph) == IF ph = "val" THEN loaders.val ELSE loaders.test

(***************************************************************************)
(* Initial states: environment_loader has returned and train_main has      *)
(* initialised its locals (lines 265-273); the first epoch is entered.     *)
(***************************************************************************)
RunConfig(mm, ms, ex, dbg, sched, ne, lf, nc) ==
    [multimodal |-> mm, mask_schedule |-> ms, exclusion_loss |-> ex,
     debugging |-> dbg, lr_scheduler |-> sched, no_epochs |-> ne, log_freq |-> lf,
     epoch_decay |-> 2, exclusion_weight |-> 3, temperature |-> 2,
     num_classes |-> nc, mask_wucd_percent |-> Frac(1, 5), max_text_seq_len |-> 3]

\* Lines 50-64: environment_loader constructs the mask schedule from the
\* arguments, the model configuration and the length of the train loader.
EnvironmentLoader ==
    \E pn \in (IF args.mask_schedule THEN BOOLEAN ELSE {FALSE}) :
        mask_scheduler =
            MasksSchedule(args.mask_schedule, model.seq_len, args.max_text_seq_len,
                          MaskWucdSteps(TotalSteps(args.no_epochs, loaders.train),
                                        args.mask_wucd_percent),
                          TotalSteps(args.no_epochs, loaders.train), pn)

InitLocals ==
    /\ pc = "t_fetch"
    /\ phase = "train"
    /\ epoch = 0
    /\ i = 0
    /\ global_step = 0
    /\ masks = None
    /\ mask_query = -1
    /\ captions = None
    /\ labels_text = None
    /\ text_prompt = None
    /\ outs = [cls |-> 0, txt |-> 0, excl |-> 0, scores |-> <<>>]
    /\ loss = 0
    /\ current_losses = <<>>
    /\ correct_1 = 0
    /\ correct_5 = 0
    /\ total = 0
    /\ train_loss_avg = <<>>
    /\ val_loss_avg = <<>>
    /\ top1_accuracies = <<>>
    /\ top5_accuracies = <<>>
    /\ default_val_loss_avg = <<>>
    /\ best_epoch = 0
    /\ curr_acc = Frac(0, 1)
    /\ top_acc = Frac(0, 1)
    /\ ret = Frac(0, 1)
    /\ optimizer = [steps |-> 0, decays |-> 0]
    /\ lr_scheduler = [steps |-> 0]
    /\ fetched = 0
    /\ ckpt = [state |-> None, writes |-> <<>>]

\* Runs of the whole controller: every combination of the objective flags and
\* of what the model returns on one-epoch runs, and the plain objective on runs
\* of up to MaxEpochs epochs with and without the debugging exit and the
\* scheduler.  One-epoch runs classify over 6 classes (a label can miss the
\* top 5), longer runs over 5.
Init ==
    /\ InitLocals
    /\ \E mm \in BOOLEAN, ms \in BOOLEAN, ex \in BOOLEAN, dbg \in BOOLEAN,
          sched \in BOOLEAN, ne \in 1..MaxEpochs, lf \in 1..MaxLogFreq,
          ht \in BOOLEAN, he \in BOOLEAN, tl \in {1, MaxTrainLen} :
        /\ (mm \/ ms \/ ex \/ ht \/ he) => (ne = 1 /\ tl = 1 /\ ~dbg /\ sched)
        /\ (dbg \/ lf > 1) => tl = MaxTrainLen
        /\ args = RunConfig(mm, ms, ex, dbg, sched, ne, lf, IF ne = 1 THEN 6 ELSE 5)
        /\ model = [has_text |-> ht, has_excl |-> he,
                    cls_range |-> {7}, txt_range |-> {3}, excl_range |-> {2},
                    coarse |-> FALSE, seq_len |-> 4]
        /\ loaders = [train |-> tl, val |-> [k \in 1..ValLen |-> 1], test |-> <<1>>,
                      captions |-> {<<101, 7, 102>>}]
        /\ EnvironmentLoader

\* Three-epoch runs of the plain objective whose validation loader holds
\* ScenarioTotal examples, so that percentages such as 70, 65 and 75 occur.
InitScenario ==
    /\ InitLocals
    /\ args = RunConfig(FALSE, FALSE, FALSE, FALSE, TRUE, 3, 1, 5)
    /\ model = [has_text |-> FALSE, has_excl |-> FALSE,
                cls_range |-> {7}, txt_range |-> {3}, excl_range |-> {2},
                coarse |-> FALSE, seq_len |-> 4]
    /\ loaders = [train |-> 1, val |-> <<ScenarioTotal>>, test |-> <<1>>,
                  captions |-> {<<101, 7, 102>>}]
    /\ EnvironmentLoader

\* One-epoch runs of every objective the model supports, with the loss terms
\* ranging over several values (zero and negative ones included).
InitLoss ==
    /\ InitLocals
    /\ \E mm \in BOOLEAN, ms \in BOOLEAN, ex \in BOOLEAN :
        /\ ms => mm
        /\ args = RunConfig(mm, ms, ex, FALSE, TRUE, 1, 1, 5)
        /\ model = [has_text |-> ms, has_excl |-> ex,
                    cls_range |-> {5, 7}, txt_range |-> {0, 3},
                    excl_range |-> {-1, 0, 2}, coarse |-> FALSE, seq_len |-> 4]
        /\ loaders = [train |-> 1, val |-> <<1>>, test |-> <<1>>,
                      captions |-> {<<101, 7, 102>>}]
        /\ EnvironmentLoader

\* Two training epochs of the plain objective over loaders of every length up
\* to MaxTrainLen, with and without debugging, the batch loss taking several
\* values so that the mean of an epoch depends on which batches it covers.
InitEpoch ==
    /\ InitLocals
    /\ \E dbg \in BOOLEAN, lf \in 1..MaxLogFreq, tl \in 1..MaxTrainLen :
        /\ args = RunConfig(FALSE, FALSE, FALSE, dbg, TRUE, 2, lf, 5)
        /\ model = [has_text |-> FALSE, has_excl |-> FALSE,
                    cls_range |-> {5, 7}, txt_range |-> {3}, excl_range |-> {2},
                    coarse |-> FALSE, seq_len |-> 4]
        /\ loaders = [train |-> tl, val |-> <<1>>, test |-> <<1>>,
                      captions |-> {<<101, 7, 102>>}]
        /\ EnvironmentLoader

\* One-epoch runs of the plain objective whose validation loader has up to
\* MaxValLen batches of unequal sizes, with and without debugging; and runs
\* of a coarse model whose validation loader holds batches of 800, 150 and 50
\* examples followed by batches of one.
InitVal ==
    /\ InitLocals
    /\ \E dbg \in BOOLEAN, lf \in 1..MaxLogFreq, vl \in 1..MaxValLen, big \in BOOLEAN :
        /\ big => vl = MaxValLen
        /\ args = RunConfig(FALSE, FALSE, FALSE, dbg, TRUE, 1, lf, 6)
        /\ model = [has_text |-> FALSE, has_excl |-> FALSE,
                    cls_range |-> {7}, txt_range |-> {3}, excl_range |-> {2},
                    coarse |-> big, seq_len |-> 4]
        /\ loaders = [train |-> 1,
                      val |-> [k \in 1..vl |->
                                 IF big
                                 THEN IF k = 1 THEN 800
                                      ELSE IF k = 2 THEN 150
                                      ELSE IF k = 3 THEN 50 ELSE 1
                                 ELSE IF k = 1 THEN 2 ELSE 1],
                      test |-> <<1>>,
                      captions |-> {<<101, 7, 102>>}]
        /\ EnvironmentLoader

\* The values of --mask_wucd_percent the runs are started with.
WucdPercents == {Frac(0, 1), Frac(1, 5), Frac(1, 2), Frac(3, 5), Frac(1, 1)}

\* Masked multimodal runs of one or two epochs over train loaders of every
\* length up to MaxTrainLen, for every percentage of WucdPercents; and the
\* two-epoch run over ScenarioEpochLen batches per epoch at 0.2.
InitMask ==
    /\ InitLocals
    /\ \E ne \in 1..2, tl \in 1..MaxTrainLen, p \in WucdPercents, long \in BOOLEAN :
        /\ long => (ne = 2 /\ tl = 1 /\ p = Frac(1, 5))
        /\ args = [RunConfig(TRUE, TRUE, FALSE, FALSE, TRUE, ne, 1, 5)
                       EXCEPT !.mask_wucd_percent = p]
        /\ model = [has_text |-> TRUE, has_excl |-> FALSE,
                    cls_range |-> {7}, txt_range |-> {3}, excl_range |-> {2},
                    coarse |-> FALSE, seq_len |-> 4]
        /\ loaders = [train |-> IF long THEN ScenarioEpochLen ELSE tl,
                      val |-> <<1>>, test |-> <<1>>,
                      captions |-> {<<101, 7, 102>>}]
        /\ EnvironmentLoader

\* Token ids a caption is made of: pad, start, end and an ordinary token.
CaptionTokens == {0, 101, 102, 7}

\* Two-epoch masked multimodal runs without warmup whose captions range over
\* every sequence of CaptionTokens, so that training and the first validation
\* pass meet every combination of token and mask bit.
InitText ==
    /\ InitLocals
    /\ args = [RunConfig(TRUE, TRUE, FALSE, FALSE, TRUE, 2, 1, 5)
                   EXCEPT !.mask_wucd_percent = Frac(0, 1)]
    /\ model = [has_text |-> TRUE, has_excl |-> FALSE,
                cls_range |-> {7}, txt_range |-> {3}, excl_range |-> {2},
                coarse |-> FALSE, seq_len |-> 4]
    /\ loaders = [train |-> 1, val |-> <<1>>, test |-> <<1>>,
                  captions |-> [1..args.max_text_seq_len -> CaptionTokens]]
    /\ EnvironmentLoader

(***************************************************************************)
(* train_one_epoch, lines 85-158.                                          *)
(***************************************************************************)
ctl == <<args, model, loaders, mask_scheduler, text_prompt>>
hist == <<train_loss_avg, val_loss_avg, top1_accuracies, top5_accuracies,
          default_val_loss_avg>>
best == <<best_epoch, curr_acc, top_acc, ckpt, ret>>
counts == <<correct_1, correct_5, total>>
text == <<captions, labels_text>>

\* Line 85: the loader yields the next batch or is exhausted.
TrainFetch ==
    /\ pc = "t_fetch"
    /\ IF i < loaders.train
       THEN /\ fetched' = fetched + 1
            /\ pc' = "t_mask"
       ELSE /\ pc' = "t_end"
            /\ UNCHANGED fetched
    /\ UNCHANGED <<ctl, hist, best, counts, phase, epoch, i, global_step, masks, mask_query, text,
                   outs, loss, current_losses, optimizer, lr_scheduler>>

\* Lines 95-102: query the mask schedule, build labels_text. The captions of
\* the batch (unpacked at lines 87-91) are drawn here, where they are first read.
TrainMask ==
    /\ pc = "t_mask"
    /\ mask_query' = MaskQueryArg(global_step)
    /\ masks' \in RetMask(mask_query')
    /\ captions' \in (IF args.multimodal THEN loaders.captions ELSE {None})
    /\ labels_text' = IF masks' # None /\ args.multimodal
                      THEN LabelsText(captions', masks'[1].bits)
                      ELSE labels_text
    /\ pc' = IF LabelsTextOk(masks') THEN "t_forward" ELSE "failed"
    /\ UNCHANGED <<ctl, hist, best, counts, phase, epoch, i, global_step,
                   outs, loss, current_losses, optimizer, lr_scheduler, fetched>>

\* What a forward pass binds: the criterion values of the returned outputs.
ForwardValues(scoreSet) ==
    { [cls |-> c, txt |-> t, excl |-> x, scores |-> s] :
        c \in model.cls_range,
        t \in (IF model.has_text THEN model.txt_range ELSE {0}),
        x \in (IF model.has_excl THEN model.excl_range ELSE {0}),
        s \in scoreSet }

\* Lines 104-116: forward pass and unpacking of its result.
TrainForward ==
    /\ pc = "t_forward"
    /\ IF UnpackOk(ModelReturns, ExpectedReturns)
       THEN /\ outs' \in ForwardValues({<<>>})
            /\ pc' = "t_loss"
       ELSE /\ pc' = "failed"
            /\ UNCHANGED outs
    /\ UNCHANGED <<ctl, hist, best, counts, phase, epoch, i, global_step, masks, mask_query, text,
                   loss, current_losses, optimizer, lr_scheduler, fetched>>

\* Lines 118-122: compose the loss.
TrainLoss ==
    /\ pc = "t_loss"
    /\ IF /\ ClsLossOk(ModelReturns, ExpectedReturns)
          /\ TextLossOk(masks, ModelReturns, ExpectedReturns)
       THEN /\ loss' = ComposeLoss(args, masks, outs)
            /\ pc' = "t_backward"
       ELSE /\ pc' = "failed"
            /\ UNCHANGED loss
    /\ UNCHANGED <<ctl, hist, best, counts, phase, epoch, i, global_step, masks, mask_query, text,
                   outs, current_losses, optimizer, lr_scheduler, fetched>>

\* Lines 125-126: loss.backward() and optimizer.step().
TrainBackward ==
    /\ pc = "t_backward"
    /\ IF ScalarLossOk(ModelReturns, ExpectedReturns)
       THEN /\ optimizer' = [optimizer EXCEPT !.steps = @ + 1]
            /\ pc' = "t_lr"
       ELSE /\ pc' = "failed"
            /\ UNCHANGED optimizer
    /\ UNCHANGED <<ctl, hist, best, counts, phase, epoch, i, global_step, masks, mask_query, text,
                   outs, loss, current_losses, lr_scheduler, fetched>>

\* Lines 127-129: lr_scheduler.step() when a scheduler is configured.
TrainLrStep ==
    /\ pc = "t_lr"
    /\ lr_scheduler' = IF args.lr_scheduler
                       THEN LrSchedulerStep(lr_scheduler)
                       ELSE lr_scheduler
    /\ pc' = "t_record"
    /\ UNCHANGED <<ctl, hist, best, counts, phase, epoch, i, global_step, masks, mask_query, text,
                   outs, loss, current_losses, optimizer, fetched>>

\* Line 131: record the loss of the batch.
TrainRecord ==
    /\ pc = "t_record"
    /\ current_losses' = Append(current_losses, loss)
    /\ pc' = "t_count"
    /\ UNCHANGED <<ctl, hist, best, counts, phase, epoch, i, global_step, masks, mask_query, text,
                   outs, loss, optimizer, lr_scheduler, fetched>>

\* Lines 133-149: advance the shared counter, then the debugging exit.
TrainCount ==
    /\ pc = "t_count"
    /\ global_step' = StepAfterBatch(global_step)
    /\ IF DebugBreak(i)
       THEN /\ pc' = "t_end"
            /\ UNCHANGED i
       ELSE /\ pc' = "t_fetch"
            /\ i' = i + 1
    /\ UNCHANGED <<ctl, hist, best, counts, phase, epoch, masks, mask_query, text,
                   outs, loss, current_losses, optimizer, lr_scheduler, fetched>>

\* Lines 151-158, then lines 286-288 and 166-176: decay, append the epoch
\* mean, return, and enter validate on the validation loader.
TrainEnd ==
    /\ pc = "t_end"
    /\ optimizer' = IF DecayNow THEN [optimizer EXCEPT !.decays = @ + 1] ELSE optimizer
    /\ train_loss_avg' = Append(train_loss_avg, mean(current_losses))
    /\ phase' = "val"
    /\ correct_1' = 0
    /\ correct_5' = 0
    /\ total' = 0
    /\ current_losses' = <<>>
    /\ i' = 0
    /\ pc' = "v_fetch"
    /\ UNCHANGED <<ctl, best, epoch, global_step, masks, mask_query, text, outs, loss, lr_scheduler,
                   fetched, val_loss_avg, top1_accuracies, top5_accuracies,
                   default_val_loss_avg>>

(***************************************************************************)
(* validate, lines 161-253.                                                *)
(***************************************************************************)

\* Line 178.
ValFetch ==
    /\ pc = "v_fetch"
    /\ pc' = IF i < Len(Loader(phase)) THEN "v_mask" ELSE "v_end"
    /\ UNCHANGED <<ctl, hist, best, counts, phase, epoch, i, global_step, masks, mask_query, text,
                   outs, loss, current_losses, optimizer, lr_scheduler, fetched>>

\* Lines 187-193.
ValMask ==
    /\ pc = "v_mask"
    /\ mask_query' = ValMaskQueryArg(global_step)
    /\ masks' \in RetMask(mask_query')
    /\ captions' \in (IF args.multimodal THEN loaders.captions ELSE {None})
    /\ labels_text' = IF masks' # None /\ args.multimodal
                      THEN LabelsText(captions', masks'[1].bits)
                      ELSE labels_text
    /\ pc' = IF LabelsTextOk(masks') THEN "v_forward" ELSE "failed"
    /\ UNCHANGED <<ctl, hist, best, counts, phase, epoch, i, global_step,
                   outs, loss, current_losses, optimizer, lr_scheduler, fetched>>

\* Lines 195-207.
ValForward ==
    /\ pc = "v_forward"
    /\ IF UnpackOk(ModelReturns, ExpectedReturns)
       THEN /\ outs' \in ForwardValues(
                    ModelOutputs(BatchLabels(i, Loader(phase)[i + 1])))
            /\ pc' = "v_loss"
       ELSE /\ pc' = "failed"
            /\ UNCHANGED outs
    /\ UNCHANGED <<ctl, hist, best, counts, phase, epoch, i, global_step, masks, mask_query, text,
                   loss, current_losses, optimizer, lr_scheduler, fetched>>

\* Lines 209-213.
ValLoss ==
    /\ pc = "v_loss"
    /\ IF /\ ClsLossOk(ModelReturns, ExpectedReturns)
          /\ TextLossOk(masks, ModelReturns, ExpectedReturns)
       THEN /\ loss' = ComposeLoss(args, masks, outs)
            /\ pc' = "v_record"
       ELSE /\ pc' = "failed"
            /\ UNCHANGED loss
    /\ UNCHANGED <<ctl, hist, best, counts, phase, epoch, i, global_step, masks, mask_query, text,
                   outs, current_losses, optimizer, lr_scheduler, fetched>>

\* Line 220.
AddCorrect1(c1, corr) == c1 + corr[1]

\* Mutant of AddCorrect5: the count is overwritten, not accumulated.
AddCorrect5Overwrites(c5, corr) == corr[2]

\* Line 221.
AddCorrect5(c5, corr) == c5 + corr[2]

\* Lines 215-232: record the loss, accumulate the counts, debugging exit.
ValRecord ==
    /\ pc = "v_record"
    /\ IF ScalarLossOk(ModelReturns, ExpectedReturns)
       THEN LET labels == BatchLabels(i, Loader(phase)[i + 1])
                curr_corr_list == accuracy(outs.scores, labels)
            IN  /\ current_losses' = Append(current_losses, loss)
                /\ total' = total + Len(labels)
                /\ correct_1' = AddCorrect1(correct_1, curr_corr_list)
                /\ correct_5' = AddCorrect5(correct_5, curr_corr_list)
                /\ IF DebugBreak(i)
                   THEN /\ pc' = "v_end"
                        /\ UNCHANGED i
                   ELSE /\ pc' = "v_fetch"
                        /\ i' = i + 1
       ELSE /\ pc' = "failed"
            /\ UNCHANGED <<current_losses, counts, i>>
    /\ UNCHANGED <<ctl, hist, best, phase, epoch, global_step, masks, mask_query, text,
                   outs, loss, optimizer, lr_scheduler, fetched>>

\* Mutant of Percent: the ratio is not scaled to a percentage.
PercentUnscaled(correct, tot) == Frac(correct, tot)

\* Lines 238 and 243.
Percent(correct, tot) == Frac(100 * correct, tot)

\* Lines 234-253: append the pass's results and return the top-1 percentage.
ValEnd ==
    /\ pc = "v_end"
    /\ IF UsesRunValLoss(phase)
       THEN /\ val_loss_avg' = Append(val_loss_avg, mean(current_losses))
            /\ UNCHANGED default_val_loss_avg
       ELSE /\ default_val_loss_avg' = Append(default_val_loss_avg, mean(current_losses))
            /\ UNCHANGED val_loss_avg
    /\ top1_accuracies' = Append(top1_accuracies, Percent(correct_1, total))
    /\ top5_accuracies' = Append(top5_accuracies, Percent(correct_5, total))
    /\ ret' = Percent(correct_1, total)
    /\ pc' = AfterValidate(phase)
    /\ UNCHANGED <<ctl, counts, phase, epoch, i, global_step, masks, mask_query, text, outs, loss,
                   current_losses, optimizer, lr_scheduler, fetched, train_loss_avg,
                   best_epoch, curr_acc, top_acc, ckpt>>

(***************************************************************************)
(* train_main, lines 275-299.                                              *)
(***************************************************************************)

\* Lines 286-295: bind the value validate returned and decide on the
\* checkpoint; then the loop head (line 275) or the final call (line 298).
Decide ==
    /\ pc = "decide"
    /\ curr_acc' = ret
    /\ IF ShouldSave(curr_acc', top_acc)
       THEN /\ ckpt' = [state |-> Some(optimizer.steps),
                        writes |-> Append(ckpt.writes, epoch + 1)]
            /\ top_acc' = NewTopAcc(curr_acc', top_acc)
            /\ best_epoch' = NewBestEpoch(epoch)
       ELSE UNCHANGED <<ckpt, top_acc, best_epoch>>
    /\ IF phase = "test"
       THEN /\ pc' = "done"
            /\ UNCHANGED <<phase, epoch, counts>>
       ELSE IF LoopContinues(epoch)
       THEN /\ epoch' = epoch + 1
            /\ phase' = "train"
            /\ pc' = "t_fetch"
            /\ UNCHANGED counts
       ELSE /\ phase' = "test"
            /\ pc' = "v_fetch"
            /\ correct_1' = 0
            /\ correct_5' = 0
            /\ total' = 0
            /\ UNCHANGED epoch
    /\ i' = 0
    /\ current_losses' = <<>>
    /\ UNCHANGED <<ctl, hist, ret, global_step, masks, mask_query, text, outs, loss,
                   optimizer, lr_scheduler, fetched>>

Next ==
    \/ TrainFetch
    \/ TrainMask
    \/ TrainForward
    \/ TrainLoss
    \/ TrainBackward
    \/ TrainLrStep
    \/ TrainRecord
    \/ TrainCount
    \/ TrainEnd
    \/ ValFetch
    \/ ValMask
    \/ ValForward
    \/ ValLoss
    \/ ValRecord
    \/ ValEnd
    \/ Decide

Spec == Init /\ [][Next]_vars

SpecScenario == InitScenario /\ [][Next]_vars

SpecLoss == InitLoss /\ [][Next]_vars

SpecEpoch == InitEpoch /\ [][Next]_vars

SpecVal == InitVal /\ [][Next]_vars

SpecMask == InitMask /\ [][Next]_vars

SpecText == InitText /\ [][Next]_vars

(***************************************************************************)
(* inference.py: return_prepared_inputs, lines 123-136.                    *)
(***************************************************************************)

\* Everything but the position and the prompt: the training state, which
\* inference leaves as constructed.
run == <<model, loaders, phase, epoch, i, global_step, masks, mask_query, text, outs,
         loss, current_losses, counts, hist, best, optimizer, lr_scheduler, fetched>>

\* MasksSchedule.special_tokens: the ids of the pad, start and end tokens.
SpecialTokens == <<0, 101, 102>>

\* An inference call in multimodal mode under either fill policy, for every
\* prompt length up to MaxTextLen and every vocabulary size up to MaxVocab; the
\* scheduler holds the special-token ids (pad, start, end) and the vocabulary
\* size.
InitInfer ==
    /\ phase = "infer" /\ pc = "p_fill"
    /\ epoch = 0 /\ i = 0 /\ global_step = 0 /\ fetched = 0
    /\ masks = None /\ mask_query = -1 /\ captions = None /\ labels_text = None
    /\ outs = [cls |-> 0, txt |-> 0, excl |-> 0, scores |-> <<>>]
    /\ loss = 0 /\ current_losses = <<>>
    /\ correct_1 = 0 /\ correct_5 = 0 /\ total = 0
    /\ train_loss_avg = <<>> /\ val_loss_avg = <<>> /\ default_val_loss_avg = <<>>
    /\ top1_accuracies = <<>> /\ top5_accuracies = <<>>
    /\ best_epoch = 0
    /\ curr_acc = Frac(0, 1) /\ top_acc = Frac(0, 1) /\ ret = Frac(0, 1)
    /\ optimizer = [steps |-> 0, decays |-> 0]
    /\ lr_scheduler = [steps |-> 0]
    /\ ckpt = [state |-> None, writes |-> <<>>]
    /\ model = None /\ loaders = None
    /\ text_prompt = None
    /\ \E mb \in {"constant", "random"}, len \in 1..MaxTextLen, vs \in 2..MaxVocab :
        /\ args = [inference_mode |-> "multimodal", masking_behavior |-> mb,
                   max_text_seq_len |-> len]
        /\ mask_scheduler = [special_tokens |-> SpecialTokens, vocab_size |-> vs]

\* Mutant of PromptIds: the last id of the vocabulary can be drawn too.
PromptIdsWholeVocab(vocab_size) == 0..(vocab_size - 1)

\* Line 131: torch.randint(0, vocab_size - 1, ...) draws from 0 .. vocab_size - 2.
PromptIds(vocab_size) == 0..(vocab_size - 2)

\* Lines 127-131: the general fill, ones under 'constant' and random ids
\* otherwise.
PromptFill ==
    /\ pc = "p_fill"
    /\ args.inference_mode = "multimodal"
    /\ text_prompt' \in
        IF args.masking_behavior = "constant"
        THEN {[j \in 1..args.max_text_seq_len |-> 1]}
        ELSE [1..args.max_text_seq_len -> PromptIds(mask_scheduler.vocab_size)]
    /\ pc' = "p_start"
    /\ UNCHANGED <<run, args, mask_scheduler>>

\* Line 132: text_prompt[:, 0] = mask_scheduler.special_tokens[1].
PromptStart ==
    /\ pc = "p_start"
    /\ text_prompt' = [text_prompt EXCEPT ![1] = mask_scheduler.special_tokens[2]]
    /\ pc' = "p_end"
    /\ UNCHANGED <<run, args, mask_scheduler>>

\* Lines 133-134: text_prompt[:, -1] = mask_scheduler.special_tokens[2], and
\* return.
PromptEnd ==
    /\ pc = "p_end"
    /\ text_prompt' =
        [text_prompt EXCEPT ![Len(text_prompt)] = mask_scheduler.special_tokens[3]]
    /\ pc' = "p_return"
    /\ UNCHANGED <<run, args, mask_scheduler>>

NextInfer == PromptFill \/ PromptStart \/ PromptEnd

SpecInfer == InitInfer /\ [][NextInfer]_vars

(***************************************************************************)
(* Properties.                                                             *)
(***************************************************************************)
Zero == Frac(0, 1)

\* Epochs whose checkpoint decision has been taken.
DecidedEpochs == IF phase = "test" THEN args.no_epochs ELSE epoch

\* The checkpoint was written after epoch e (1-indexed).
Written(e) == \E k \in DOMAIN ckpt.writes : ckpt.writes[k] = e

\* Epoch e's validation top-1 strictly exceeds that of every earlier epoch.
ExceedsEarlier(e) ==
    \A d \in 1..(e - 1) : FracGt(top1_accuracies[e], top1_accuracies[d])

TrainBatchPcs ==
    {"t_mask", "t_forward", "t_loss", "t_backward", "t_lr", "t_record", "t_count"}

ValPcs == {"v_fetch", "v_mask", "v_forward", "v_loss", "v_record", "v_end"}

InTrainBatch == pc \in TrainBatchPcs

AfterMaskQuery == InTrainBatch /\ pc # "t_mask"

\* C1 as stated: the checkpoint is written after epoch e if and only if epoch
\* e's validation top-1 strictly exceeds the top-1 of every earlier epoch (the
\* first epoch always qualifying).
C1_Original ==
    \A e \in 1..DecidedEpochs : Written(e) <=> ExceedsEarlier(e)

\* C1 (amended): the checkpoint is written after epoch e if and only if epoch
\* e's validation top-1 is greater than 0 and strictly exceeds the top-1 of
\* every earlier epoch; a first epoch with top-1 of 0 writes nothing.
C1_SavedIffNewPositiveMax ==
    \A e \in 1..DecidedEpochs :
        Written(e) <=> (FracGt(top1_accuracies[e], Zero) /\ ExceedsEarlier(e))

\* A finished three-epoch run that saved after epochs 1 and 3 and skipped
\* epoch 2 on a tie.
C1_Witness ==
    /\ pc = "done"
    /\ ckpt.writes = <<1, 3>>
    /\ FracEq(top1_accuracies[2], top1_accuracies[1])

\* C2 as stated: the counter is advanced for a batch before that batch queries
\* the mask schedule, so training batch N queries it with N.
C2_Original ==
    AfterMaskQuery => (mask_query = fetched /\ global_step = fetched)

\* C2 (amended): within a training batch the order is: query the mask
\* schedule, forward, compose the loss, backward and optimizer step, advance
\* the LR schedule, record the loss, and only then advance the counter; so
\* training batch N queries the mask schedule with N - 1.
C2_CounterAdvancesLast ==
    /\ AfterMaskQuery => mask_query = fetched - 1
    /\ InTrainBatch => global_step = fetched - 1
    /\ pc \in {"t_mask", "t_forward", "t_loss", "t_backward"}
          => optimizer.steps = fetched - 1
    /\ pc \in {"t_lr", "t_record", "t_count"} => optimizer.steps = fetched
    /\ (args.lr_scheduler /\ pc \in (TrainBatchPcs \ {"t_record", "t_count"}))
          => lr_scheduler.steps = fetched - 1
    /\ (args.lr_scheduler /\ pc \in {"t_record", "t_count"})
          => lr_scheduler.steps = fetched
    /\ pc \in (TrainBatchPcs \ {"t_count"}) => Len(current_losses) = i
    /\ pc = "t_count" => Len(current_losses) = i + 1

\* The third training batch of a run has recorded its loss and is about to
\* advance the counter.
C2_Witness ==
    /\ pc = "t_count"
    /\ fetched = 3
    /\ mask_query = 2
    /\ args.lr_scheduler

\* Training batches whose iteration has been completed.
BatchesProcessed ==
    IF InTrainBatch \/ pc = "failed" THEN fetched - 1 ELSE fetched

\* C3: the shared step counter equals the number of training batches processed
\* so far in every reachable state: it starts at 0, each training batch adds
\* exactly 1 (also the batch that takes the debugging exit), validate adds
\* nothing, and it is never reset.
C3_CounterCountsBatches ==
    /\ global_step = BatchesProcessed
    /\ (phase \in {"val", "test"}) => global_step = optimizer.steps

\* A finished debugging run whose epochs were all cut short.
C3_Witness ==
    /\ pc = "done"
    /\ args.debugging
    /\ args.no_epochs > 1
    /\ global_step = 3 * args.log_freq * args.no_epochs
    /\ global_step < args.no_epochs * loaders.train

\* C4 as stated: the top-1 accuracy a pass appends is at least its top-5
\* accuracy.
C4_Original ==
    \A k \in DOMAIN top1_accuracies :
        k \in DOMAIN top5_accuracies
            => FracGe(top1_accuracies[k], top5_accuracies[k])

\* C4 (amended): the top-5 accuracy a pass appends is at least its top-1
\* accuracy, both over the same total.
C4_Top5AtLeastTop1 ==
    /\ Len(top5_accuracies) = Len(top1_accuracies)
    /\ \A k \in DOMAIN top1_accuracies :
        /\ top5_accuracies[k].den = top1_accuracies[k].den
        /\ FracGe(top5_accuracies[k], top1_accuracies[k])

\* A pass over two examples: one top-1 right, the other top-5 right only.
C4_Witness ==
    \E k \in DOMAIN top1_accuracies :
        /\ top1_accuracies[k] = Frac(100, 2)
        /\ top5_accuracies[k] = Frac(200, 2)

\* best_epoch names the first epoch whose validation top-1 equals top_acc.
NamesFirstMax ==
    /\ best_epoch \in 1..DecidedEpochs
    /\ FracEq(top1_accuracies[best_epoch], top_acc)
    /\ \A d \in 1..(best_epoch - 1) : ~FracEq(top1_accuracies[d], top_acc)

\* An epoch whose top-1 does not exceed an earlier epoch's writes nothing.
NoSaveOnTieOrLower ==
    \A e \in 1..DecidedEpochs :
        (\E d \in 1..(e - 1) : FracGe(top1_accuracies[d], top1_accuracies[e]))
            => ~Written(e)

\* The run's per-epoch validation top-1 values were 70, 65 and 75.
Scenario706575 ==
    /\ Len(top1_accuracies) >= 3
    /\ FracEq(top1_accuracies[1], Frac(70, 1))
    /\ FracEq(top1_accuracies[2], Frac(65, 1))
    /\ FracEq(top1_accuracies[3], Frac(75, 1))

ScenarioOutcome ==
    (pc = "done" /\ Scenario706575) => (ckpt.writes = <<1, 3>> /\ best_epoch = 3)

\* C5 as stated: a top-1 equal to or lower than the best so far saves nothing,
\* best_epoch always names the first epoch that reached top_acc, and the run
\* 70, 65, 75 saves after epochs 1 and 3 and ends with best_epoch 3.
C5_Original ==
    /\ NoSaveOnTieOrLower
    /\ DecidedEpochs >= 1 => NamesFirstMax
    /\ ScenarioOutcome

\* C5 (amended): a top-1 equal to or lower than the best so far neither saves
\* nor changes top_acc or best_epoch; once a checkpoint has been written
\* best_epoch names the first epoch that reached top_acc, and until then (every
\* top-1 so far being 0) best_epoch stays 0; the run 70, 65, 75 saves after
\* epochs 1 and 3 and ends with best_epoch 3.
C5_TiesKeepFirstMax ==
    /\ [](/\ NoSaveOnTieOrLower
          /\ (ckpt.writes # <<>>) => NamesFirstMax
          /\ (ckpt.writes = <<>>) => (best_epoch = 0 /\ top_acc = Zero)
          /\ ScenarioOutcome)
    /\ [][(pc = "decide" /\ ~FracGt(ret, top_acc))
            => UNCHANGED <<top_acc, best_epoch, ckpt>>]_vars

\* The finished run 70, 65, 75.
C5_Witness ==
    /\ pc = "done"
    /\ Scenario706575
    /\ ckpt.writes = <<1, 3>>
    /\ best_epoch = 3

\* C6: a run is no_epochs repetitions of (training epoch, one validation pass,
\* checkpoint decision) in strict sequence, then one pass on the test loader,
\* then termination; a validation pass starts only after its training epoch
\* has finished.
C6_StrictSequence ==
    /\ phase = "train" =>
        /\ epoch < args.no_epochs
        /\ pc \in TrainBatchPcs \cup {"t_fetch", "t_end", "failed"}
        /\ Len(train_loss_avg) = epoch
        /\ Len(top1_accuracies) = epoch
    /\ phase = "val" =>
        /\ epoch < args.no_epochs
        /\ pc \in ValPcs \cup {"decide"}
        /\ Len(train_loss_avg) = epoch + 1
        /\ Len(top1_accuracies) = epoch + (IF pc = "decide" THEN 1 ELSE 0)
    /\ phase = "test" =>
        /\ epoch = args.no_epochs - 1
        /\ pc \in ValPcs \cup {"done"}
        /\ Len(train_loss_avg) = args.no_epochs
        /\ Len(top1_accuracies) = args.no_epochs + (IF pc = "done" THEN 1 ELSE 0)
    /\ pc = "done" => (phase = "test" /\ ~ENABLED Next)

\* A finished run of MaxEpochs epochs.
C6_Witness ==
    /\ pc = "done"
    /\ args.no_epochs = MaxEpochs
    /\ Len(train_loss_avg) = MaxEpochs
    /\ Len(top1_accuracies) = MaxEpochs + 1

\* C7: the final pass on the test loader leaves top_acc, best_epoch and the
\* persisted checkpoint unchanged, whatever top-1 it yields.
C7_TestPassLeavesBest ==
    [][phase = "test" => UNCHANGED <<top_acc, best_epoch, ckpt>>]_vars

\* A finished run whose test top-1 is higher than every validation top-1.
C7_Witness ==
    /\ pc = "done"
    /\ args.no_epochs > 1
    /\ FracGt(top1_accuracies[Len(top1_accuracies)], top_acc)
    /\ \A d \in 1..args.no_epochs :
          FracGt(top1_accuracies[Len(top1_accuracies)], top1_accuracies[d])

\* new is old with exactly n entries appended.
Extends(new, old, n) ==
    /\ Len(new) = Len(old) + n
    /\ SubSeq(new, 1, Len(old)) = old

\* C8 as stated: every validation pass, the final test pass included, appends
\* one entry to each of top1_accuracies, top5_accuracies and val_loss_avg, and
\* every training epoch one to train_loss_avg.
C8_Original ==
    pc = "done" =>
        /\ Len(top1_accuracies) = args.no_epochs + 1
        /\ Len(top5_accuracies) = args.no_epochs + 1
        /\ Len(val_loss_avg) = args.no_epochs + 1
        /\ Len(train_loss_avg) = args.no_epochs

\* C8 (amended): every validation pass appends exactly one entry to
\* top1_accuracies and to top5_accuracies; a per-epoch pass also appends
\* exactly one entry to val_loss_avg, whereas the final test pass leaves the
\* run-level val_loss_avg unchanged (its entry goes to the default list of
\* validate); every training epoch appends exactly one entry to
\* train_loss_avg; no entry of these lists is removed or overwritten.
C8_HistoryAppends ==
    [][/\ Extends(top1_accuracies', top1_accuracies, IF pc = "v_end" THEN 1 ELSE 0)
       /\ Extends(top5_accuracies', top5_accuracies, IF pc = "v_end" THEN 1 ELSE 0)
       /\ Extends(val_loss_avg', val_loss_avg,
                  IF pc = "v_end" /\ phase = "val" THEN 1 ELSE 0)
       /\ Extends(default_val_loss_avg', default_val_loss_avg,
                  IF pc = "v_end" /\ phase = "test" THEN 1 ELSE 0)
       /\ Extends(train_loss_avg', train_loss_avg, IF pc = "t_end" THEN 1 ELSE 0)
      ]_vars

\* A finished run: one val_loss_avg entry per epoch, the test pass's in the
\* default list.
C8_Witness ==
    /\ pc = "done"
    /\ args.no_epochs = 2
    /\ Len(val_loss_avg) = 2
    /\ Len(default_val_loss_avg) = 1
    /\ Len(top1_accuracies) = 3
    /\ Len(top5_accuracies) = 3
    /\ Len(train_loss_avg) = 2

\* The loss of the current batch has been composed.
LossComposed == pc \in {"t_backward", "t_lr", "t_record", "t_count", "v_record"}

\* C9: the total loss of a step is the classification term, plus the text
\* term exactly when the mask schedule returned a mask, minus
\* exclusion_weight * temperature^2 * exclusion_term exactly when
\* exclusion_loss is enabled; with exclusion_loss disabled it equals the total
\* of the same step with the exclusion term set to zero.
C9_LossComposition ==
    LossComposed =>
        /\ loss = outs.cls
                  + (IF masks # None THEN outs.txt ELSE 0)
                  - (IF args.exclusion_loss
                     THEN args.exclusion_weight * args.temperature * args.temperature
                          * outs.excl
                     ELSE 0)
        /\ (~args.exclusion_loss) =>
              loss = ComposeLoss([args EXCEPT !.exclusion_loss = TRUE], masks,
                                 [outs EXCEPT !.excl = 0])

\* A training step with all three terms: 7 + 3 - 3 * 2^2 * 2.
C9_Witness ==
    /\ pc = "t_backward"
    /\ args.exclusion_loss
    /\ masks # None
    /\ outs.cls = 7 /\ outs.txt = 3 /\ outs.excl = 2
    /\ loss = -14

\* The configuration asks for an output the model does not produce, or for
\* masking without captions.
Mismatch ==
    \/ args.mask_schedule /\ ~model.has_text
    \/ args.exclusion_loss /\ ~model.has_excl
    \/ args.mask_schedule /\ ~args.multimodal

NothingDone ==
    /\ global_step = 0
    /\ optimizer = [steps |-> 0, decays |-> 0]
    /\ lr_scheduler.steps = 0
    /\ train_loss_avg = <<>>
    /\ val_loss_avg = <<>>
    /\ default_val_loss_avg = <<>>
    /\ top1_accuracies = <<>>
    /\ top5_accuracies = <<>>
    /\ ckpt = [state |-> None, writes |-> <<>>]

\* C10: with mask_schedule or exclusion_loss enabled but the model not
\* producing the matching output (or mask_schedule without captions) the run
\* fails in its first batch: the counter is still 0, no optimizer or
\* LR-scheduler step was made, no history list was appended to and no
\* checkpoint was written.
C10_FailsBeforeAnyStep ==
    /\ Mismatch =>
        /\ NothingDone
        /\ fetched <= 1
        /\ pc \in {"t_fetch", "t_mask", "t_forward", "t_loss", "t_backward", "failed"}
    /\ pc = "failed" => NothingDone

\* The run has failed on a mismatched configuration.
C10_Witness == pc = "failed" /\ Mismatch /\ fetched = 1

Min(a, b) == IF a <= b THEN a ELSE b

\* The number of batches C11 says one training epoch processes.
EpochBatches ==
    IF args.debugging THEN Min(loaders.train, 3 * args.log_freq) ELSE loaders.train

\* When the batch loop of a training epoch has ended, the loader has yielded
\* EpochBatches batches per epoch so far and the epoch holds one loss for each
\* batch it processed.
EpochCovered ==
    pc = "t_end" =>
        /\ fetched = (epoch + 1) * EpochBatches
        /\ Len(current_losses) = EpochBatches
        /\ Len(current_losses) >= 1

\* Each processed batch contributes its own loss, and the epoch appends the
\* mean of the losses it collected.
EpochMeanStep ==
    /\ pc = "t_record" => current_losses' = Append(current_losses, loss)
    /\ pc = "t_end" =>
        train_loss_avg' =
            Append(train_loss_avg, Frac(SumSeq(current_losses), Len(current_losses)))

\* C11: with debugging enabled a training epoch over a loader of L >= 1
\* batches processes exactly min(L, 3 * log_freq) batches and then ends, with
\* debugging disabled it processes all L; the value appended to train_loss_avg
\* is the mean of exactly the losses of the batches processed, never of an
\* empty list.
C11_EpochMeanOfProcessed == [](EpochCovered) /\ [][EpochMeanStep]_vars

\* A debugging epoch over a loader longer than 3 * log_freq that stopped after
\* three batches with losses 5, 5 and 7 (in some order) and recorded 17/3.
C11_Witness ==
    /\ args.debugging
    /\ loaders.train > 3 * args.log_freq
    /\ fetched = 3
    /\ train_loss_avg = <<Frac(17, 3)>>

\* The number of batches C12 says the active validation pass processes.
PassBatches ==
    IF args.debugging
    THEN Min(Len(Loader(phase)), 3 * args.log_freq)
    ELSE Len(Loader(phase))

\* The number of examples in the first n batches of a loader.
ExamplesIn(loader, n) == SumSeq(SubSeq(loader, 1, n))

\* Examples of the current validation batch whose label has fewer than k
\* classes scored strictly above it.
CountedCorrect(k) ==
    LET labels == BatchLabels(i, Loader(phase)[i + 1])
    IN  Cardinality({e \in DOMAIN labels :
            Cardinality({d \in DOMAIN outs.scores[e] :
                outs.scores[e][d] > outs.scores[e][labels[e]]}) < k})

\* When the batch loop of a pass has ended, total counts the examples of
\* exactly the batches it processed.
PassTotal ==
    pc = "v_end" =>
        /\ total = ExamplesIn(Loader(phase), PassBatches)
        /\ total > 0

\* total = 1000, correct_1 = 800, correct_5 = 950 gives 80 and 95.
Scenario80And95 ==
    (pc = "decide" /\ total = 1000 /\ correct_1 = 800 /\ correct_5 = 950) =>
        /\ FracEq(top1_accuracies[Len(top1_accuracies)], Frac(80, 1))
        /\ FracEq(top5_accuracies[Len(top5_accuracies)], Frac(95, 1))
        /\ FracEq(ret, Frac(80, 1))

\* Each processed batch adds its top-1 and top-5 correct examples, and the
\* pass reports 100 * correct_k / total.
PassPercentStep ==
    /\ (pc = "v_record" /\ pc' # "failed") =>
        /\ correct_1' = correct_1 + CountedCorrect(1)
        /\ correct_5' = correct_5 + CountedCorrect(5)
    /\ pc = "v_end" =>
        /\ top1_accuracies' = Append(top1_accuracies, Frac(100 * correct_1, total))
        /\ top5_accuracies' = Append(top5_accuracies, Frac(100 * correct_5, total))
        /\ ret' = Frac(100 * correct_1, total)

\* C12: every validation pass reports top-1 and top-5 as 100 * correct_k /
\* total, where total is the number of examples in exactly the batches the
\* pass processed (also when the debugging exit cut it short) and correct_k
\* the number of those examples counted top-k correct; total = 1000,
\* correct_1 = 800, correct_5 = 950 gives 80 and 95.
C12_PercentOfProcessed ==
    [](PassTotal /\ Scenario80And95) /\ [][PassPercentStep]_vars

\* A debugging pass cut short after three of four batches that saw 1000
\* examples, 800 of them top-1 and 950 top-5 correct, and returned 80.
C12_Witness ==
    /\ args.debugging
    /\ pc = "decide"
    /\ Len(loaders.val) > 3 * args.log_freq
    /\ total = 1000 /\ correct_1 = 800 /\ correct_5 = 950
    /\ ret = Frac(80000, 1000)

\* total_steps and the common length of warmup and cooldown as the arguments
\* of the run give them.
RunTotalSteps == args.no_epochs * loaders.train

RunWucdSteps ==
    (RunTotalSteps * args.mask_wucd_percent.num) \div args.mask_wucd_percent.den

\* The ratio C13 states for a step, as a fraction of the maximum.
StatedRatio(step) ==
    IF step < RunWucdSteps THEN Frac(step, RunWucdSteps)
    ELSE IF step < RunTotalSteps - RunWucdSteps THEN Frac(1, 1)
    ELSE IF step < RunTotalSteps THEN Frac(RunTotalSteps - step, RunWucdSteps)
    ELSE Frac(0, 1)

\* total_steps = 100 and mask_wucd_percent = 0.2: 0 at step 0, half the
\* maximum at step 10, the maximum at step 50, half at step 90, 0 at step 100.
Scenario100Steps ==
    (RunTotalSteps = 100 /\ args.mask_wucd_percent = Frac(1, 5)) =>
        /\ mask_query = 0 => FracEq(MaskRatio(mask_query), Frac(0, 1))
        /\ mask_query = 10 => FracEq(MaskRatio(mask_query), Frac(1, 2))
        /\ mask_query = 50 => FracEq(MaskRatio(mask_query), Frac(1, 1))
        /\ mask_query = 90 => FracEq(MaskRatio(mask_query), Frac(1, 2))
        /\ mask_query = 100 => FracEq(MaskRatio(mask_query), Frac(0, 1))

ValidateFrame ==
    phase \in {"val", "test"} => UNCHANGED <<global_step, optimizer, lr_scheduler>>

\* Every batch of a pass has queried the mask schedule with the counter as
\* training left it: the number of training batches processed so far.
ValidateQueries ==
    pc \in {"v_forward", "v_loss", "v_record"} =>
        /\ mask_query = global_step
        /\ global_step = fetched

\* C14: validate leaves the step counter, the optimizer and the LR schedule
\* unchanged, and every batch of one validation pass queries the mask schedule
\* with the same counter value, the one the preceding training epoch left.
C14_ValidateReadsCounter == [](ValidateQueries) /\ [][ValidateFrame]_vars

\* The second batch of the validation pass after the second one-batch epoch
\* has queried the schedule with 2.
C14_Witness ==
    /\ phase = "val" /\ pc = "v_record" /\ i = 1
    /\ epoch = 1
    /\ mask_query = 2 /\ global_step = 2

\* Positions between two training batches, and after training.
BetweenBatches ==
    pc \in ({"t_fetch", "t_end", "decide", "done"} \cup ValPcs)

\* C15: with the warmup-cosine scheduler configured the LR schedule and the
\* mask schedule advance in lockstep: after any number of processed training
\* batches the number of lr_scheduler advances equals the step counter, and
\* from the moment a training batch queries the mask schedule until its
\* optimizer update is done the step the LR schedule stands at is the step the
\* mask schedule was queried with.
C15_SchedulesInLockstep ==
    args.lr_scheduler =>
        /\ BetweenBatches => lr_scheduler.steps = global_step
        /\ pc \in {"t_forward", "t_loss", "t_backward", "t_lr"} =>
            /\ lr_scheduler.steps = mask_query
            /\ lr_scheduler.steps = fetched - 1

\* The fourth training batch of a scheduler run has made its optimizer update
\* under LR step 3, the step its mask query used.
C15_Witness ==
    /\ args.lr_scheduler
    /\ pc = "t_lr"
    /\ optimizer.steps = 4
    /\ mask_query = 3
    /\ lr_scheduler.steps = 3

\* Training epochs that have ended.
EpochsTrained == Len(train_loss_avg)

\* Training batches whose LR step (line 127-128) has been passed.
LrStepsPassed ==
    IF pc \in {"t_record", "t_count"} THEN global_step + 1 ELSE global_step

\* The optimizer steps and decays only inside training.
LrModesStep ==
    /\ lr_scheduler' # lr_scheduler =>
        /\ pc = "t_lr"
        /\ lr_scheduler'.steps = lr_scheduler.steps + 1
    /\ optimizer'.decays # optimizer.decays =>
        /\ pc = "t_end"
        /\ optimizer'.decays = optimizer.decays + 1
        /\ (epoch + 1) % args.epoch_decay = 0

\* C16: the two LR modes are mutually exclusive. With a scheduler configured
\* it is advanced exactly once per processed training batch and the epoch
\* decay is never applied; without one the scheduler is never advanced and the
\* decay is applied exactly at the end of the training epochs whose 1-indexed
\* number is a multiple of epoch_decay, at most once per epoch.
C16_LrModesExclusive ==
    /\ [](pc # "failed" =>
            IF args.lr_scheduler
            THEN /\ lr_scheduler.steps = LrStepsPassed
                 /\ optimizer.decays = 0
            ELSE /\ lr_scheduler.steps = 0
                 /\ optimizer.decays = EpochsTrained \div args.epoch_decay)
    /\ [][LrModesStep]_vars

\* A run without scheduler that has trained two epochs and decayed once, at
\* the end of the second.
C16_Witness ==
    /\ ~args.lr_scheduler
    /\ EpochsTrained = 2
    /\ optimizer.decays = 1
    /\ lr_scheduler.steps = 0
    /\ optimizer.steps >= 2

\* The schedule in use was constructed with total_steps = no_epochs *
\* steps_per_epoch and warmup_steps = cooldown_steps = floor(total_steps *
\* mask_wucd_percent).
ScheduleAsConstructed ==
    /\ mask_scheduler.total_steps = args.no_epochs * loaders.train
    /\ mask_scheduler.warmup_steps = RunWucdSteps
    /\ mask_scheduler.cooldown_steps = RunWucdSteps

WarmupAndCooldownFit ==
    mask_scheduler.warmup_steps + mask_scheduler.cooldown_steps
        <= mask_scheduler.total_steps

PercentAtMostHalf == FracGe(Frac(1, 2), args.mask_wucd_percent)

\* C17 as stated: the schedule is constructed with total_steps = no_epochs *
\* steps_per_epoch and warmup_steps = cooldown_steps = floor(total_steps *
\* mask_wucd_percent), and warmup_steps + cooldown_steps <= total_steps
\* exactly when mask_wucd_percent <= 0.5.
C17_Original ==
    mask_query >= 0 =>
        /\ ScheduleAsConstructed
        /\ WarmupAndCooldownFit <=> PercentAtMostHalf

\* C17 (amended): the schedule is constructed with total_steps = no_epochs *
\* steps_per_epoch and warmup_steps = cooldown_steps = floor(total_steps *
\* mask_wucd_percent), computed once and never changed, and warmup_steps +
\* cooldown_steps <= total_steps whenever mask_wucd_percent <= 0.5 (the
\* flooring lets it hold for larger percentages too).
C17_FitsUpToHalf ==
    /\ [](mask_query >= 0 =>
            /\ ScheduleAsConstructed
            /\ PercentAtMostHalf => WarmupAndCooldownFit)
    /\ [][mask_scheduler' = mask_scheduler]_vars

\* The last training batch of a 4-step run at 0.5 has queried a schedule
\* whose warmup and cooldown of 2 steps each fill it exactly.
C17_Witness ==
    /\ args.mask_wucd_percent = Frac(1, 2)
    /\ mask_scheduler.total_steps = 4
    /\ mask_scheduler.warmup_steps = 2 /\ mask_scheduler.cooldown_steps = 2
    /\ mask_query = 3

\* Positions at which the labels of the text loss of the current batch exist.
LabelsBuilt ==
    /\ masks # None
    /\ pc \in (TrainBatchPcs \cup {"v_forward", "v_loss", "v_record"})
    /\ pc # "t_mask"

\* C18: when a mask is returned for a step, a caption text position
\* contributes to the text loss (keeps its token id as label) if and only if
\* its token id is none of pad (0), start (101), end (102) and the mask is not
\* set at that position of the text region, the last max_text_seq_len mask
\* positions; every other position gets the ignore label -100.
C18_TextLabels ==
    LabelsBuilt =>
        /\ DOMAIN labels_text = 1..args.max_text_seq_len
        /\ \A j \in 1..args.max_text_seq_len :
            LET tok == captions[j]
                bit == masks[1].bits[model.seq_len - args.max_text_seq_len + j]
            IN  labels_text[j] =
                    IF tok \notin {0, 101, 102} /\ bit # 1 THEN tok ELSE -100

\* A validation batch whose caption holds two ordinary tokens and a pad, with
\* the image position and the second text position masked: only the first
\* text position contributes.
C18_Witness ==
    /\ phase = "val" /\ pc = "v_loss"
    /\ masks # None
    /\ captions = <<7, 7, 0>>
    /\ masks[1].bits = <<1, 0, 1, 0>>
    /\ labels_text = <<7, -100, -100>>

\* Positions of the returned prompt other than the first and the last hold
\* what the fill policy put there.
PromptInnerFill ==
    \A j \in 2..(args.max_text_seq_len - 1) :
        IF args.masking_behavior = "constant"
        THEN text_prompt[j] = 1
        ELSE text_prompt[j] \in 0..(mask_scheduler.vocab_size - 2)

\* C19 as stated: in multimodal mode the prompt returned has length
\* max_text_seq_len, its first position holds the start id and its last the
\* end id under both fill policies, and its other positions hold the
\* placeholder id under 'constant' and otherwise ids of 0 .. vocab_size - 2.
C19_Original ==
    pc = "p_return" =>
        /\ Len(text_prompt) = args.max_text_seq_len
        /\ text_prompt[1] = 101
        /\ text_prompt[Len(text_prompt)] = 102
        /\ PromptInnerFill

\* C19 (amended): the prompt returned has length max_text_seq_len, its last
\* position holds the end id and, when max_text_seq_len is at least 2, its
\* first position holds the start id, under both fill policies; its other
\* positions hold the placeholder id under 'constant' and otherwise ids of
\* 0 .. vocab_size - 2. A prompt of length 1 holds the end id only.
C19_PromptEnds ==
    pc = "p_return" =>
        /\ Len(text_prompt) = args.max_text_seq_len
        /\ text_prompt[Len(text_prompt)] = 102
        /\ args.max_text_seq_len >= 2 => text_prompt[1] = 101
        /\ args.max_text_seq_len = 1 => text_prompt = <<102>>
        /\ PromptInnerFill

\* A random prompt of length 4 over a vocabulary of 4 whose inner positions
\* drew the ids 2 (the highest that can be drawn) and 0.
C19_Witness ==
    /\ pc = "p_return"
    /\ args.masking_behavior = "random"
    /\ mask_scheduler.vocab_size = 4
    /\ text_prompt = <<101, 2, 0, 102>>

\* A batch of the validation pass after the last epoch, or of the final test
\* pass, has queried the mask schedule.
FinalPassQueried ==
    /\ pc \in {"v_forward", "v_loss", "v_record"}
    /\ phase = "test" \/ epoch = args.no_epochs - 1

\* The value the schedule returned masks nothing.
NoMasking ==
    masks # None => \A q \in DOMAIN masks[1].bits : masks[1].bits[q] = 0

\* C20: with debugging disabled every training batch queries the mask
\* schedule with a step in [0, total_steps), the first batch of the run with
\* 0 and the last with total_steps - 1, so no training batch is in the
\* post-schedule phase; the validation pass after the last epoch and the final
\* test pass query it with total_steps, in the post-schedule phase, where
\* nothing is masked.
C20_TrainingWithinSchedule ==
    ~args.debugging =>
        /\ AfterMaskQuery =>
            /\ mask_query = fetched - 1
            /\ 0 <= mask_query /\ mask_query < mask_scheduler.total_steps
            /\ ~PostSchedule(mask_query)
            /\ fetched = 1 => mask_query = 0
            /\ (epoch = args.no_epochs - 1 /\ i = loaders.train - 1) =>
                mask_query = mask_scheduler.total_steps - 1
        /\ FinalPassQueried =>
            /\ mask_query = mask_scheduler.total_steps
            /\ PostSchedule(mask_query)
            /\ MaskRatio(mask_query).num = 0
            /\ NoMasking

\* The final test pass of a three-epoch run over four batches per epoch has
\* queried the schedule with step 12, its total_steps.
C20_Witness ==
    /\ ~args.debugging
    /\ phase = "test" /\ pc = "v_loss"
    /\ mask_scheduler.total_steps = 12
    /\ mask_query = 12
    /\ fetched = 12

\* top_acc is the maximum of 0 and the validation top-1 of the epochs decided.
TopAccIsMax ==
    /\ FracGe(top_acc, Zero)
    /\ \A e \in 1..DecidedEpochs : FracGe(top_acc, top1_accuracies[e])
    /\ \/ FracEq(top_acc, Zero)
       \/ \E e \in 1..DecidedEpochs : FracEq(top_acc, top1_accuracies[e])

\* The persisted checkpoint is the model after the optimizer steps of the
\* first best_epoch epochs, written after epoch best_epoch.
CheckpointOfBestEpoch ==
    /\ ckpt.writes[Len(ckpt.writes)] = best_epoch
    /\ ckpt.state = Some(best_epoch * EpochBatches)

\* C21: after every completed epoch top_acc equals the maximum of 0 and all
\* per-epoch validation top-1 values so far; best_epoch is 0 exactly when no
\* checkpoint has been written (every validation top-1 so far was 0), and
\* otherwise 1 <= best_epoch <= epochs completed, the top-1 of epoch best_epoch
\* equals top_acc and the persisted checkpoint is the model state at the end
\* of epoch best_epoch.
C21_BestTracksMaximum ==
    pc # "failed" =>
        /\ TopAccIsMax
        /\ (best_epoch = 0) <=> (ckpt.writes = <<>>)
        /\ (best_epoch = 0) <=>
            (\A e \in 1..DecidedEpochs : FracEq(top1_accuracies[e], Zero))
        /\ best_epoch = 0 => ckpt.state = None
        /\ best_epoch # 0 =>
            /\ 1 <= best_epoch /\ best_epoch <= DecidedEpochs
            /\ FracEq(top1_accuracies[best_epoch], top_acc)
            /\ CheckpointOfBestEpoch

\* A finished three-epoch run over four batches per epoch with validation
\* top-1 of 0, 100 and 50: the checkpoint is the model after the 8 steps of
\* the first two epochs.
C21_Witness ==
    /\ pc = "done"
    /\ ~args.debugging
    /\ args.no_epochs = 3
    /\ loaders.train = 4
    /\ FracEq(top1_accuracies[1], Zero)
    /\ FracEq(top1_accuracies[2], Frac(100, 1))
    /\ FracEq(top1_accuracies[3], Frac(50, 1))
    /\ best_epoch = 2
    /\ ckpt = [state |-> Some(8), writes |-> <<2>>]

====
